---- MODULE Spec2Model ----
(***************************************************************************)
(* State-machine model of binwalk's plugin registry                        *)
(* (src/src/binwalk/core/plugin.py): class Plugin (the base every plugin   *)
(* subclasses) and class Plugins (discovery with list_plugins, loading     *)
(* with load_plugins / _load_plugin_modules, dispatch with _call_plugins   *)
(* through pre_scan_callbacks / scan_callbacks / post_scan_callbacks).     *)
(*                                                                         *)
(* One Plugins object is modelled.  A driver calls its public operations   *)
(* one after the other (the code is single threaded); every operation is   *)
(* split at the iterations of its loop, so that the state between two      *)
(* plugin files or two callbacks can be observed.  An exception that       *)
(* leaves an operation is recorded in exc and the driver may go on using   *)
(* the registry.                                                           *)
(***************************************************************************)
EXTENDS Integers, Sequences, FiniteSets, TLC

\* ------------------------------------------------------------------ bounds

\* Most plugin files in the user and system plugin directories together.
MaxFiles == 2
\* Most public operations the driver starts on the registry.
MaxOps == 3

\* --------------------------------------------------------- program constants

SCAN == "scan"
PRESCAN == "pre_scan"
POSTSCAN == "post_scan"
MODULE_EXTENSION == ".py"

\* The lifecycle methods class Plugin itself defines (each body is `pass`).
BaseMethods == {PRESCAN, SCAN, POSTSCAN}

\* plugins.keys() in list_plugins / the two calls of load_plugins.
Origins == {"user", "system"}

\* ------------------------------------------------------------------ inputs

\* The names a module context (Plugins.parent, Plugin.module) can have.
ModuleNames == {"Signature", "Entropy"}

\* The plugin source files that can lie in a plugin directory, in the
\* lexicographic order of their names.  For each: its file name split at the
\* extension, what importing it yields ("ok": a module holding a subclass of
\* Plugin; "error": imp.load_source raises, e.g. a SyntaxError; "noclass": the
\* module holds no subclass of Plugin), the class's docstring as its lines
\* (<<>>: no docstring; "": a blank line), its MODULES list and the lifecycle
\* methods the class overrides.
PluginFiles ==
  << [name |-> "alpha",   ext |-> ".py", load |-> "ok",
      doc |-> <<"", "Alpha plugin.", "Details.">>,
      MODULES |-> {}, overrides |-> {SCAN}],
     [name |-> "bravo",   ext |-> ".py", load |-> "ok",
      doc |-> <<>>,
      MODULES |-> {}, overrides |-> {PRESCAN, POSTSCAN}],
     [name |-> "charlie", ext |-> ".py", load |-> "ok",
      doc |-> <<"Charlie plugin.">>,
      MODULES |-> {"Entropy"}, overrides |-> {PRESCAN, SCAN, POSTSCAN}],
     [name |-> "delta",   ext |-> ".py", load |-> "error",
      doc |-> <<>>,
      MODULES |-> {}, overrides |-> {}],
     [name |-> "echo",    ext |-> ".py", load |-> "noclass",
      doc |-> <<>>,
      MODULES |-> {}, overrides |-> {}] >>

FileIds == DOMAIN PluginFiles

\* plugin_class before its first assignment in list_plugins (an unbound local).
Unbound == 0

\* The result records the driver passes to scan_callbacks, each a dict given
\* as its set of <<key, value>> items; {} is the empty dict.
Results == { {}, {<<"valid", TRUE>>} }

\* What the code of an overriding lifecycle method may do when it is called:
\* return, write result['valid'] = False (scan only), raise an ordinary
\* Exception, or raise KeyboardInterrupt.
Events == {"ok", "invalidate", "raise", "interrupt"}

\* ------------------------------------------------------------------- state

VARIABLES
  listdir,       \* os.listdir(path) of each origin's plugin directory
  parent,        \* Plugins.parent: the module context, by its name
  scan,          \* Plugins.scan
  pre_scan,      \* Plugins.pre_scan
  post_scan,     \* Plugins.post_scan
  instances,     \* every Plugin instance constructed so far
  warnings,      \* the messages the warning interface has emitted
  pc,            \* where the running operation is: idle, list, load, call
  op,            \* the public operation running (or the last one run)
  nops,          \* operations started
  exc,           \* the exception that left the last operation, or "none"
  signal,        \* the exception raised inside the last try block, or "none"
  plugins,       \* list_plugins: the inventory being built / returned
  keys,          \* the origins still to iterate
  okey,          \* the origin being iterated
  todo,          \* the files (modules) still to iterate in okey
  plugin_class,  \* list_plugins: the local plugin_class
  processed,     \* the <<origin, file>> pairs the running operation reached
  obj,           \* the result record passed to the running dispatch
  ci,            \* _call_plugins: index of the next callback
  invoked        \* the callbacks the running dispatch has invoked

vars == << listdir, parent, scan, pre_scan, post_scan, instances, warnings,
           pc, op, nops, exc, signal, plugins, keys, okey, todo,
           plugin_class, processed, obj, ci, invoked >>

registry == << scan, pre_scan, post_scan >>
listing == << plugins, plugin_class >>
calling == << obj, ci, invoked >>

\* ----------------------------------------------------------------- helpers

\* The sequences over S without repetition, of length at most n.
RECURSIVE InjSeqs(_, _)
InjSeqs(S, n) ==
  IF n = 0 THEN { <<>> }
  ELSE { <<>> } \cup
       UNION { { <<x>> \o s : s \in InjSeqs(S \ {x}, n - 1) } : x \in S }

Range(s) == { s[i] : i \in DOMAIN s }

\* file_name.endswith(MODULE_EXTENSION)
IsCandidate(f) == PluginFiles[f].ext = MODULE_EXTENSION

\* The inventory list_plugins starts from.
EmptyInventory ==
  [k \in Origins |-> [modules |-> <<>>,
                      descriptions |-> [m \in {} |-> ""],
                      enabled |-> [m \in {} |-> TRUE]]]

\* binwalk.common.core.warning(msg).  The module imports binwalk.core.common;
\* nothing binds the attribute `common` of package binwalk, so evaluating the
\* call target raises AttributeError and no message is emitted.
warning(ws, msg) == [raised |-> "AttributeError", warnings |-> ws]

\* ------------------------------------------------------------ Plugin (base)

\* Plugin.__init__: the instance is enabled iff MODULES is empty or holds the
\* name of the module context.
Enabled(f, ctx) ==
  PluginFiles[f].MODULES = {} \/ ctx \in PluginFiles[f].MODULES

\* getattr(class_instance, method) finds the method: the class overrides it
\* or inherits it from Plugin, which every class _find_plugin_class accepts
\* subclasses.
Defines(f, method) == method \in PluginFiles[f].overrides \cup BaseMethods

\* ---------------------------------------------------------------- discovery

\* doc.strip(): the leading blank lines go.
RECURSIVE Strip(_)
Strip(doc) ==
  IF doc = <<>> THEN <<>>
  ELSE IF Head(doc) = "" THEN Strip(Tail(doc)) ELSE doc

\* plugin_class.__doc__.strip().split('\n')[0] inside its try block: an
\* unbound plugin_class (NameError) and a class without docstring (None has
\* no strip) give 'No description'.
Description(pclass) ==
  IF pclass = Unbound THEN "No description"
  ELSE IF PluginFiles[pclass].doc = <<>> THEN "No description"
  ELSE LET d == Strip(PluginFiles[pclass].doc)
       IN IF d = <<>> THEN "" ELSE Head(d)

\* ListOne with plugins[key]['modules'].append(module) left out.
ListOne_noAppend(pl, k, f, pclass, ws, intr) ==
  IF intr
  THEN [plugins |-> pl, plugin_class |-> pclass, warnings |-> ws,
        exc |-> "KeyboardInterrupt", signal |-> "KeyboardInterrupt"]
  ELSE IF PluginFiles[f].load = "ok"
  THEN LET p1 == [pl EXCEPT ![k].enabled = (f :> TRUE) @@ @]
       IN [plugins |-> [p1 EXCEPT ![k].descriptions =
                                     (f :> Description(f)) @@ @],
           plugin_class |-> f, warnings |-> ws, exc |-> "none",
           signal |-> "none"]
  ELSE [plugins |-> pl, plugin_class |-> pclass, warnings |-> ws,
        exc |-> warning(ws, <<"Error loading plugin", f>>).raised,
        signal |-> "Exception"]

\* One iteration of the loop over os.listdir for candidate file f of origin k.
\* intr: KeyboardInterrupt is raised while the file is imported.
ListOne(pl, k, f, pclass, ws, intr) ==
  IF intr
  THEN [plugins |-> pl, plugin_class |-> pclass, warnings |-> ws,
        exc |-> "KeyboardInterrupt", signal |-> "KeyboardInterrupt"]
  ELSE IF PluginFiles[f].load = "ok"
  THEN LET p1 == [pl EXCEPT ![k].enabled = (f :> TRUE) @@ @,
                            ![k].modules = Append(@, f)]
       IN [plugins |-> [p1 EXCEPT ![k].descriptions =
                                     (f :> Description(f)) @@ @],
           plugin_class |-> f, warnings |-> ws, exc |-> "none",
           signal |-> "none"]
  ELSE LET w == warning(ws, <<"Error loading plugin", f>>)
       IN IF w.raised # "none"
          THEN [plugins |-> pl, plugin_class |-> pclass,
                warnings |-> w.warnings, exc |-> w.raised,
                signal |-> "Exception"]
          ELSE LET p1 == [pl EXCEPT ![k].enabled = (f :> FALSE) @@ @]
               IN [plugins |-> [p1 EXCEPT ![k].descriptions =
                                             (f :> Description(pclass)) @@ @],
                   plugin_class |-> pclass, warnings |-> w.warnings,
                   exc |-> "none", signal |-> "Exception"]

\* A public operation starts: the driver is between operations.  The locals
\* and the return value of the operation before are gone.
CanStart == pc = "idle" /\ nops < MaxOps

\* The first lines of list_plugins: the empty inventory, then the loop over
\* plugins.keys(), whose order the dict decides.
BeginListing(o) ==
  /\ CanStart
  /\ op' = o
  /\ nops' = nops + 1
  /\ pc' = "list"
  /\ exc' = "none"
  /\ signal' = "none"
  /\ plugins' = EmptyInventory
  /\ plugin_class' = Unbound
  /\ \E ks \in InjSeqs(Origins, Cardinality(Origins)) :
        Len(ks) = Cardinality(Origins) /\ keys' = ks
  /\ okey' = "user"
  /\ todo' = <<>>
  /\ processed' = <<>>
  /\ obj' = {}
  /\ ci' = 1
  /\ invoked' = <<>>
  /\ UNCHANGED << listdir, parent, registry, instances, warnings >>

\* list_plugins() called by the driver.
StartListPlugins == BeginListing("list_plugins")

\* load_plugins() called by the driver: it begins with list_plugins().
StartLoadPlugins == BeginListing("load_plugins")

\* list_plugins: the next key of plugins.keys(); os.listdir of its directory.
ListDir ==
  /\ pc = "list" /\ todo = <<>> /\ keys # <<>>
  /\ okey' = Head(keys)
  /\ keys' = Tail(keys)
  /\ todo' = listdir[Head(keys)]
  /\ UNCHANGED << listdir, parent, registry, instances, warnings, pc, op,
                  nops, exc, signal, listing, processed, calling >>

\* list_plugins: one file of the directory.
ListFile ==
  /\ pc = "list" /\ todo # <<>>
  /\ LET f == Head(todo)
     IN IF ~IsCandidate(f)
        THEN /\ todo' = Tail(todo)
             /\ UNCHANGED << pc, exc, signal, listing, warnings, processed, keys >>
        ELSE \E intr \in BOOLEAN :
               LET r == ListOne(plugins, okey, f, plugin_class, warnings, intr)
               IN /\ plugins' = r.plugins
                  /\ plugin_class' = r.plugin_class
                  /\ warnings' = r.warnings
                  /\ processed' = Append(processed, <<okey, f>>)
                  /\ exc' = r.exc
                  /\ signal' = r.signal
                  /\ IF r.exc = "none"
                     THEN pc' = "list" /\ todo' = Tail(todo) /\ keys' = keys
                     ELSE pc' = "idle" /\ todo' = <<>> /\ keys' = <<>>
  /\ UNCHANGED << listdir, parent, registry, instances, op, nops, okey,
                  calling >>

\* list_plugins returns the inventory to the driver.
ListReturn ==
  /\ pc = "list" /\ todo = <<>> /\ keys = <<>>
  /\ op = "list_plugins"
  /\ pc' = "idle"
  /\ UNCHANGED << listdir, parent, registry, instances, warnings, op, nops,
                  exc, signal, listing, keys, okey, todo, processed, calling >>

\* ------------------------------------------------------------------ loading

\* What the plugin's own code does while _load_plugin_modules handles it:
\* nothing special, init() raises an ordinary Exception, init() raises
\* KeyboardInterrupt, or KeyboardInterrupt is raised while the file is
\* imported.
LoadEvents == {"ok", "init_raise", "init_interrupt", "import_interrupt"}

\* Construct with init() called on both branches of the test.
Construct_initAlways(f, k, ctx) ==
  [file |-> f, origin |-> k, enabled |-> Enabled(f, ctx), inits |-> 1]

\* Plugin.__init__(module) of file f's class for origin k: the instance, with
\* the number of times its init() has run.
Construct(f, k, ctx) ==
  [file |-> f, origin |-> k, enabled |-> Enabled(f, ctx),
   inits |-> IF Enabled(f, ctx) THEN 1 ELSE 0]

\* Registers with the test of _enabled left out.
Registers_always(inst) == TRUE

\* if not class_instance._enabled: continue
Registers(inst) == inst.enabled

\* AppendHandle with self.SCAN pasted into all three getattr calls.
AppendHandle_scan(list, i, f, method) ==
  Append(list, [inst |-> i, method |-> SCAN])

\* self.<list>.append(getattr(class_instance, method)) inside its try block:
\* a missing attribute leaves the list as it is.
AppendHandle(list, i, f, method) ==
  IF Defines(f, method) THEN Append(list, [inst |-> i, method |-> method])
  ELSE list

\* Propagates with the KeyboardInterrupt clause left out: the interruption
\* falls to `except Exception`.
Propagates_never(e) == FALSE

\* except KeyboardInterrupt as e: raise e -- the exceptions a try block of
\* this module lets through instead of handling them as ordinary failures.
Propagates(e) == e = "KeyboardInterrupt"

\* One iteration of the loop of _load_plugin_modules for module f of origin k.
LoadOne(f, k, ev, reg, insts, ws, ctx) ==
  LET same == [scan |-> reg[1], pre_scan |-> reg[2], post_scan |-> reg[3],
               instances |-> insts, warnings |-> ws, exc |-> "none",
               signal |-> "none"]
      inst == Construct(f, k, ctx)
      i == Len(insts) + 1
      made == [same EXCEPT !.instances = Append(insts, inst)]
      \* the exception raised inside the outer try block, if any
      raised ==
        IF ev = "import_interrupt" THEN "KeyboardInterrupt"
        ELSE IF PluginFiles[f].load # "ok" THEN "Exception"
        ELSE IF inst.enabled /\ ev = "init_interrupt" THEN "KeyboardInterrupt"
        ELSE IF inst.enabled /\ ev = "init_raise" THEN "Exception"
        ELSE "none"
      \* the state when it is raised: the instance exists once init() runs
      at == IF ev = "import_interrupt" \/ PluginFiles[f].load # "ok"
            THEN same ELSE made
  IN IF raised = "none"
     THEN IF ~Registers(inst) THEN made
          ELSE [made EXCEPT
                  !.scan = AppendHandle(@, i, f, SCAN),
                  !.pre_scan = AppendHandle(@, i, f, PRESCAN),
                  !.post_scan = AppendHandle(@, i, f, POSTSCAN)]
     ELSE IF Propagates(raised)
     THEN [at EXCEPT !.exc = raised, !.signal = raised]
     ELSE LET w == warning(ws, <<"Failed to load plugin module", f>>)
          IN [at EXCEPT !.warnings = w.warnings, !.exc = w.raised,
                        !.signal = raised]

\* load_plugins: list_plugins has returned; _load_plugin_modules(plugins['user'])
\* starts, _load_plugin_modules(plugins['system']) is still to come.
LoadUser ==
  /\ pc = "list" /\ todo = <<>> /\ keys = <<>>
  /\ op = "load_plugins"
  /\ pc' = "load"
  /\ okey' = "user"
  /\ todo' = plugins["user"].modules
  /\ keys' = << "system" >>
  /\ processed' = <<>>
  /\ UNCHANGED << listdir, parent, registry, instances, warnings, op, nops,
                  exc, signal, listing, calling >>

\* _load_plugin_modules: one module of plugins['modules'].
LoadModule ==
  /\ pc = "load" /\ todo # <<>>
  /\ \E ev \in LoadEvents :
       LET r == LoadOne(Head(todo), okey, ev, registry, instances, warnings,
                        parent)
       IN /\ scan' = r.scan
          /\ pre_scan' = r.pre_scan
          /\ post_scan' = r.post_scan
          /\ instances' = r.instances
          /\ warnings' = r.warnings
          /\ exc' = r.exc
          /\ signal' = r.signal
          /\ processed' = Append(processed, << okey, Head(todo) >>)
          /\ IF r.exc = "none"
             THEN pc' = "load" /\ todo' = Tail(todo) /\ keys' = keys
             ELSE pc' = "idle" /\ todo' = <<>> /\ keys' = <<>>
  /\ UNCHANGED << listdir, parent, op, nops, okey, listing, calling >>

\* load_plugins: _load_plugin_modules(plugins['user']) has returned.
LoadSystem ==
  /\ pc = "load" /\ todo = <<>> /\ keys # <<>>
  /\ okey' = Head(keys)
  /\ keys' = Tail(keys)
  /\ todo' = plugins[Head(keys)].modules
  /\ UNCHANGED << listdir, parent, registry, instances, warnings, pc, op,
                  nops, exc, signal, listing, processed, calling >>

\* load_plugins returns.
LoadReturn ==
  /\ pc = "load" /\ todo = <<>> /\ keys = <<>>
  /\ pc' = "idle"
  /\ UNCHANGED << listdir, parent, registry, instances, warnings, op, nops,
                  exc, signal, listing, keys, okey, todo, processed, calling >>

\* ----------------------------------------------------------------- dispatch

\* The callback list each public dispatch operation hands to _call_plugins.
CallbackList(o) ==
  IF o = "pre_scan_callbacks" THEN pre_scan
  ELSE IF o = "post_scan_callbacks" THEN post_scan
  ELSE scan

\* The argument each public dispatch operation hands to _call_plugins:
\* scan_callbacks the object it was given, the other two None.
Argument(o, d) ==
  IF o = "scan_callbacks" THEN [none |-> FALSE, dict |-> d]
  ELSE [none |-> TRUE, dict |-> {}]

\* if arg: -- None and an empty dict are both false.
Truthy(a) == ~a.none /\ a.dict # {}

\* The parameters a lifecycle method takes besides self.
Arity(method) == IF method = SCAN THEN 1 ELSE 0

\* d[key] = value on a dict given as its set of items.
SetItem(d, key, value) == { p \in d : p[1] # key } \cup { << key, value >> }

\* What the code of the method behind handle h may do when entered: an
\* inherited method is Plugin's `pass`.
HandlerEvents(h) ==
  IF h.method \in PluginFiles[instances[h.inst].file].overrides
  THEN IF h.method = SCAN THEN Events ELSE Events \ {"invalidate"}
  ELSE {"ok"}

\* AfterCallback had the callback been handed a copy of the object.
AfterCallback_copy(d, written) == d

\* callback(arg) hands the callback the caller's own object: what the callback
\* wrote into it is what the object holds afterwards.
AfterCallback(d, written) == written

\* AfterCall with a callback that raised taken off the list.
AfterCall_dropFailed(list, i, raised) ==
  IF raised = "none" THEN list
  ELSE SubSeq(list, 1, i - 1) \o SubSeq(list, i + 1, Len(list))

\* for callback in callback_list: the loop only reads the list; whatever
\* callback i raised, the list holds the same callbacks afterwards.
AfterCall(list, i, raised) == list

\* One iteration of the loop of _call_plugins: callback h, the object d the
\* operation was given, ev what the callback's code does.
CallOne(h, o, d, ev, ws) ==
  LET a == Argument(o, d)
      given == IF Truthy(a) THEN 1 ELSE 0
      entered == given = Arity(h.method)
      written == IF entered /\ ev = "invalidate"
                 THEN SetItem(d, "valid", FALSE) ELSE d
      outcome == IF ~entered THEN "typeerror"
                 ELSE IF ev = "raise" THEN "raised"
                 ELSE IF ev = "interrupt" THEN "interrupted"
                 ELSE "returned"
      raised == IF outcome = "interrupted" THEN "KeyboardInterrupt"
                ELSE IF outcome = "returned" THEN "none"
                ELSE "Exception"
      entry == [h |-> h, hasArg |-> given = 1, saw |-> d, left |-> written,
                outcome |-> outcome]
      w == warning(ws, << instances[h.inst].file, h.method, "failed" >>)
  IN [entry |-> entry,
      obj |-> AfterCallback(d, written),
      warnings |-> IF raised = "none" \/ Propagates(raised)
                   THEN ws ELSE w.warnings,
      exc |-> IF raised = "none" \/ Propagates(raised)
              THEN raised ELSE w.raised,
      signal |-> raised]

\* Entry into _call_plugins from one of the three public operations.
BeginCall(o, d) ==
  /\ CanStart
  /\ op' = o
  /\ nops' = nops + 1
  /\ pc' = "call"
  /\ exc' = "none"
  /\ signal' = "none"
  /\ obj' = d
  /\ ci' = 1
  /\ invoked' = <<>>
  /\ plugins' = EmptyInventory
  /\ plugin_class' = Unbound
  /\ keys' = <<>>
  /\ okey' = "user"
  /\ todo' = <<>>
  /\ processed' = <<>>
  /\ UNCHANGED << listdir, parent, registry, instances, warnings >>

\* pre_scan_callbacks(obj): obj is not used.
StartPreScan == BeginCall("pre_scan_callbacks", {})

\* scan_callbacks(obj)
StartScan == \E d \in Results : BeginCall("scan_callbacks", d)

\* post_scan_callbacks(obj): obj is not used.
StartPostScan == BeginCall("post_scan_callbacks", {})

\* _call_plugins: the next callback of the list.
CallPlugin ==
  /\ pc = "call" /\ ci <= Len(CallbackList(op))
  /\ LET h == CallbackList(op)[ci]
     IN \E ev \in HandlerEvents(h) :
          LET r == CallOne(h, op, obj, ev, warnings)
          IN /\ invoked' = Append(invoked, r.entry)
             /\ obj' = r.obj
             /\ warnings' = r.warnings
             /\ exc' = r.exc
             /\ signal' = r.signal
             /\ IF r.exc = "none"
                THEN pc' = "call" /\ ci' = ci + 1
                ELSE pc' = "idle" /\ ci' = ci
             /\ LET l == AfterCall(CallbackList(op), ci, r.signal)
                IN /\ pre_scan' = IF op = "pre_scan_callbacks"
                                  THEN l ELSE pre_scan
                   /\ scan' = IF op = "scan_callbacks" THEN l ELSE scan
                   /\ post_scan' = IF op = "post_scan_callbacks"
                                   THEN l ELSE post_scan
  /\ UNCHANGED << listdir, parent, instances, op, nops, listing, keys, okey,
                  todo, processed >>

\* _call_plugins: the list is exhausted, the operation returns.
CallReturn ==
  /\ pc = "call" /\ ci > Len(CallbackList(op))
  /\ pc' = "idle"
  /\ UNCHANGED << listdir, parent, registry, instances, warnings, op, nops,
                  exc, signal, listing, keys, okey, todo, processed, calling >>

\* ------------------------------------------------------------ specification

\* After Plugins.__init__: three empty lists.  The plugin directories hold any
\* files of the catalogue, in whatever order os.listdir reports them.
Init ==
  /\ listdir \in { d \in [Origins -> InjSeqs(FileIds, MaxFiles)] :
                     Len(d["user"]) + Len(d["system"]) <= MaxFiles }
  /\ parent \in ModuleNames
  /\ scan = <<>>
  /\ pre_scan = <<>>
  /\ post_scan = <<>>
  /\ instances = <<>>
  /\ warnings = <<>>
  /\ pc = "idle"
  /\ op = "init"
  /\ nops = 0
  /\ exc = "none"
  /\ signal = "none"
  /\ plugins = EmptyInventory
  /\ keys = <<>>
  /\ okey = "user"
  /\ todo = <<>>
  /\ plugin_class = Unbound
  /\ processed = <<>>
  /\ obj = {}
  /\ ci = 1
  /\ invoked = <<>>

Next ==
  \/ StartListPlugins
  \/ StartLoadPlugins
  \/ ListDir
  \/ ListFile
  \/ ListReturn
  \/ LoadUser
  \/ LoadModule
  \/ LoadSystem
  \/ LoadReturn
  \/ StartPreScan
  \/ StartScan
  \/ StartPostScan
  \/ CallPlugin
  \/ CallReturn

Spec == Init /\ [][Next]_vars

\* --------------------------------------------------------------- properties

DispatchOps == {"pre_scan_callbacks", "scan_callbacks", "post_scan_callbacks"}

Lists == << pre_scan, scan, post_scan >>

\* The plugin file and the origin of the instance a handle is bound to.
FileOf(h) == instances[h.inst].file
OriginOf(h) == instances[h.inst].origin

\* The catalogue lists the files in the lexicographic order of their names.
NameBefore(f, g) == f < g

\* A dispatch operation has ended and no callback raised KeyboardInterrupt.
DispatchEnded ==
  /\ op \in DispatchOps
  /\ pc = "idle"
  /\ \A i \in DOMAIN invoked : invoked[i].outcome # "interrupted"

\* C1: failure isolation in dispatch.  When a dispatch operation has ended in
\* which callbacks returned or raised ordinary failures (none was interrupted,
\* each was called with the arguments it takes), it has returned normally, it
\* has invoked every callback of its list, and for every callback that failed
\* a warning naming its plugin and method has been emitted.
C1_FailureIsolated ==
  (DispatchEnded /\ \A i \in DOMAIN invoked : invoked[i].outcome # "typeerror")
  => /\ exc = "none"
     /\ Len(invoked) = Len(CallbackList(op))
     /\ \A i \in DOMAIN invoked :
          invoked[i].outcome = "raised"
          => Cardinality({ j \in DOMAIN warnings :
                             warnings[j] = << FileOf(invoked[i].h),
                                              invoked[i].h.method,
                                              "failed" >> }) = 1

\* C2: repeated loads do not accumulate.  When load_plugins has returned
\* normally, no callback list holds two handles of the same plugin file of the
\* same origin, so a second load leaves each list as long as the first did.
C2_NoAccumulation ==
  (op = "load_plugins" /\ pc = "idle" /\ exc = "none")
  => \A n \in DOMAIN Lists :
       \A i, j \in DOMAIN Lists[n] :
         i < j => << OriginOf(Lists[n][i]), FileOf(Lists[n][i]) >>
                  # << OriginOf(Lists[n][j]), FileOf(Lists[n][j]) >>

\* C3: a handle is registered only for an overridden method.  Every handle in
\* a callback list is bound to a lifecycle method that its plugin's class
\* overrides; a method left at Plugin's default contributes no handle.
C3_OnlyOverridden ==
  \A n \in DOMAIN Lists :
    \A i \in DOMAIN Lists[n] :
      Lists[n][i].method \in PluginFiles[FileOf(Lists[n][i])].overrides

\* C4: interruption leaves the dispatch at once.  A callback that raised
\* KeyboardInterrupt is the last one its dispatch operation invoked: the
\* operation has ended with KeyboardInterrupt reaching its caller, the loop
\* did not advance to a later callback, and no warning was emitted for it.
C4_InterruptPropagates ==
  \A i \in DOMAIN invoked :
    invoked[i].outcome = "interrupted"
    => /\ i = Len(invoked)
       /\ pc = "idle"
       /\ ci = i
       /\ exc = "KeyboardInterrupt"
       /\ \A j \in DOMAIN warnings :
            warnings[j] # << FileOf(invoked[i].h), invoked[i].h.method,
                             "failed" >>

\* C4 witness: a callback was interrupted while a later callback of the same
\* list had not been invoked.
C4_Witness ==
  /\ op \in DispatchOps
  /\ invoked # <<>>
  /\ invoked[Len(invoked)].outcome = "interrupted"
  /\ Len(invoked) < Len(CallbackList(op))

\* C5: discovery is best-effort complete.  When list_plugins has ended without
\* an interruption, it has returned normally and, for both origins, every
\* candidate file of the directory has an entry: a file that loads is in
\* 'modules' with enabled = True, a file that fails to load or holds no Plugin
\* subclass has enabled = False.
C5_DiscoveryComplete ==
  (op = "list_plugins" /\ pc = "idle" /\ exc # "KeyboardInterrupt")
  => /\ exc = "none"
     /\ \A k \in Origins :
          \A f \in Range(listdir[k]) :
            IsCandidate(f)
            => /\ f \in DOMAIN plugins[k].enabled
               /\ plugins[k].enabled[f] = (PluginFiles[f].load = "ok")
               /\ (PluginFiles[f].load = "ok"
                     => f \in Range(plugins[k].modules))

\* C6: one plugin's load failure does not abort the load.  When load_plugins
\* has ended without an interruption, over directories whose files all load,
\* it has returned normally and has handled every module of both origins,
\* whatever init() of an earlier module raised.
C6_LoadContinues ==
  (/\ op = "load_plugins" /\ pc = "idle" /\ exc # "KeyboardInterrupt"
   /\ \A k \in Origins : \A f \in Range(listdir[k]) : PluginFiles[f].load = "ok")
  => /\ exc = "none"
     /\ \A k \in Origins :
          \A f \in Range(listdir[k]) : << k, f >> \in Range(processed)

\* C7: affinity filtering.  Every constructed instance whose class has an
\* empty MODULES list is enabled; every instance whose MODULES list is not
\* empty and lacks the context's name is disabled; and no handle in any of
\* the three callback lists is bound to a disabled instance.
C7_AffinityFilter ==
  /\ \A i \in DOMAIN instances :
       /\ PluginFiles[instances[i].file].MODULES = {} => instances[i].enabled
       /\ (/\ PluginFiles[instances[i].file].MODULES # {}
           /\ parent \notin PluginFiles[instances[i].file].MODULES)
          => ~instances[i].enabled
  /\ \A n \in DOMAIN Lists :
       \A i \in DOMAIN Lists[n] : instances[Lists[n][i].inst].enabled

\* C7 witness: load_plugins has returned normally, having constructed a
\* disabled instance and registered the handles of an enabled one.
C7_Witness ==
  /\ op = "load_plugins" /\ pc = "idle" /\ exc = "none"
  /\ \E i \in DOMAIN instances : ~instances[i].enabled
  /\ scan # <<>>

\* C8: dispatch order is registration order, user origin first.  In every
\* callback list no handle of a system-origin plugin precedes a handle of a
\* user-origin plugin; the callbacks a dispatch operation has invoked are the
\* first handles of its list, in list order; and when the operation has ended
\* without an interruption, each callback having been called with the
\* arguments it takes, it has invoked every handle of the list once.
C8_OrderedDispatch ==
  /\ \A n \in DOMAIN Lists :
       \A i, j \in DOMAIN Lists[n] :
         i < j => ~(OriginOf(Lists[n][i]) = "system"
                    /\ OriginOf(Lists[n][j]) = "user")
  /\ op \in DispatchOps
     => /\ Len(invoked) <= Len(CallbackList(op))
        /\ \A i \in DOMAIN invoked : invoked[i].h = CallbackList(op)[i]
  /\ (DispatchEnded
      /\ \A i \in DOMAIN invoked : invoked[i].outcome # "typeerror")
     => Len(invoked) = Len(CallbackList(op))

\* C9: registration order within an origin is lexicographic by name.  After
\* the first load_plugins on a fresh registry, two handles of one list whose
\* plugins come from the same origin stand in the order of their names,
\* whatever order the directory was enumerated in.
C9_LexicographicOrder ==
  nops = 1
  => \A n \in DOMAIN Lists :
       \A i, j \in DOMAIN Lists[n] :
         (i < j /\ OriginOf(Lists[n][i]) = OriginOf(Lists[n][j]))
         => NameBefore(FileOf(Lists[n][i]), FileOf(Lists[n][j]))

ListingOps == {"list_plugins", "load_plugins"}

\* The lifecycle method each list of Lists is for.
ListMethod == << PRESCAN, SCAN, POSTSCAN >>

\* C11: interruption leaves discovery and loading at once.  When
\* KeyboardInterrupt was raised while list_plugins or load_plugins handled a
\* file or module, that one is the last the operation reached: the operation
\* has ended with KeyboardInterrupt reaching its caller, nothing is left to
\* iterate and no warning was emitted.
C11_InterruptAbortsLoading ==
  (op \in ListingOps /\ signal = "KeyboardInterrupt")
  => /\ pc = "idle"
     /\ exc = "KeyboardInterrupt"
     /\ processed # <<>>
     /\ todo = <<>> /\ keys = <<>>
     /\ warnings = <<>>

\* C11 witness: list_plugins was interrupted at one candidate file while
\* another candidate file of the directories had not been reached.
C11_Witness ==
  /\ op = "list_plugins" /\ signal = "KeyboardInterrupt"
  /\ \E k \in Origins :
       \E f \in Range(listdir[k]) :
         IsCandidate(f) /\ << k, f >> \notin Range(processed)

\* The description the claim gives file f: the first line of its own class's
\* documentation, 'No description' without a class or without documentation.
OwnDescription(f) ==
  IF PluginFiles[f].load = "ok" /\ Strip(PluginFiles[f].doc) # <<>>
  THEN Head(Strip(PluginFiles[f].doc))
  ELSE "No description"

\* C12: each candidate file's description is its own.  When list_plugins has
\* ended without an interruption, every candidate file of both directories has
\* a description: the first documentation line of its own class, and
\* 'No description' if the file failed to load, holds no Plugin subclass or
\* its class has no documentation.
C12_OwnDescription ==
  (op = "list_plugins" /\ pc = "idle" /\ exc # "KeyboardInterrupt")
  => \A k \in Origins :
       \A f \in Range(listdir[k]) :
         IsCandidate(f)
         => /\ f \in DOMAIN plugins[k].descriptions
            /\ plugins[k].descriptions[f] = OwnDescription(f)

\* C13: init() runs once, and only for an enabled instance.  Every constructed
\* instance has run init() once if its class's MODULES list is empty or holds
\* the context's name, and never otherwise; a disabled instance never ran it.
C13_InitOnlyWhenEnabled ==
  \A i \in DOMAIN instances :
    /\ instances[i].inits \in {0, 1}
    /\ instances[i].inits = 1
       <=> (\/ PluginFiles[instances[i].file].MODULES = {}
            \/ parent \in PluginFiles[instances[i].file].MODULES)
    /\ ~instances[i].enabled => instances[i].inits = 0

\* C13 witness: a disabled instance that never ran init() and an enabled
\* instance that ran it once have both been constructed.
C13_Witness ==
  /\ \E i \in DOMAIN instances :
       ~instances[i].enabled /\ instances[i].inits = 0
  /\ \E i \in DOMAIN instances :
       instances[i].enabled /\ instances[i].inits = 1

\* C14: the dispatch operations pass the right arguments.  Every callback
\* scan_callbacks invokes is called with the result record as its argument,
\* whatever the record holds (an empty record too), and is not failed by the
\* call itself; every callback pre_scan_callbacks and post_scan_callbacks
\* invoke is called without argument.
C14_ResultAlwaysPassed ==
  \A i \in DOMAIN invoked :
    /\ op = "scan_callbacks"
       => invoked[i].hasArg /\ invoked[i].outcome # "typeerror"
    /\ op \in {"pre_scan_callbacks", "post_scan_callbacks"}
       => ~invoked[i].hasArg

\* C15: every handle is one method of one enabled instance.  Each handle of
\* the pre_scan list is bound to pre_scan, of the scan list to scan, of the
\* post_scan list to post_scan, and to a constructed instance that is enabled;
\* after a single load_plugins on a fresh registry no instance has two handles
\* in one list.
C15_HandleShape ==
  /\ \A n \in DOMAIN Lists :
       \A i \in DOMAIN Lists[n] :
         /\ Lists[n][i].method = ListMethod[n]
         /\ Lists[n][i].inst \in DOMAIN instances
         /\ instances[Lists[n][i].inst].enabled
  /\ nops = 1
     => \A n \in DOMAIN Lists :
          \A i, j \in DOMAIN Lists[n] :
            i < j => Lists[n][i].inst # Lists[n][j].inst

\* C15 witness: a single load_plugins on a fresh registry has returned with two
\* instances registered, each with a handle in every list.
C15_Witness ==
  /\ nops = 1 /\ op = "load_plugins" /\ pc = "idle" /\ exc = "none"
  /\ Len(scan) = 2 /\ Len(pre_scan) = 2 /\ Len(post_scan) = 2
  /\ scan[1].inst = pre_scan[1].inst /\ scan[1].inst = post_scan[1].inst

\* list_plugins has returned its inventory: to the driver, or to load_plugins.
InventoryReturned ==
  \/ op = "list_plugins" /\ pc = "idle" /\ exc = "none"
  \/ op = "load_plugins" /\ pc = "load"

\* C16: the inventory is consistent.  In each origin of the inventory the
\* 'enabled' and 'descriptions' entries are for the same modules, and a module
\* is in 'modules' iff its 'enabled' entry is True; in a returned inventory the
\* entries are for exactly the candidate files of the directory; and
\* load_plugins handles and constructs only modules whose entry is True, whose
\* file did load.
C16_InventoryConsistent ==
  /\ \A k \in Origins :
       /\ DOMAIN plugins[k].enabled = DOMAIN plugins[k].descriptions
       /\ Range(plugins[k].modules) \subseteq DOMAIN plugins[k].enabled
       /\ \A m \in DOMAIN plugins[k].enabled :
            m \in Range(plugins[k].modules) <=> plugins[k].enabled[m] = TRUE
       /\ InventoryReturned
          => DOMAIN plugins[k].enabled
             = { f \in Range(listdir[k]) : IsCandidate(f) }
  /\ pc = "load"
     => \A m \in Range(todo) \cup { e[2] : e \in { x \in Range(processed) :
                                                     x[1] = okey } } :
          /\ m \in DOMAIN plugins[okey].enabled
          /\ plugins[okey].enabled[m] = TRUE
  /\ \A i \in DOMAIN instances : PluginFiles[instances[i].file].load = "ok"

\* C16 witness: load_plugins works on a returned inventory that lists two
\* modules and has constructed the first of them.
C16_Witness ==
  /\ op = "load_plugins" /\ pc = "load"
  /\ Len(plugins["user"].modules) + Len(plugins["system"].modules) = 2
  /\ processed # <<>>
  /\ instances # <<>>

\* C17: dispatch leaves the registry alone.  No step of a dispatch operation,
\* whether its callback returns, fails or is interrupted, changes any of the
\* three callback lists.
C17_DispatchKeepsRegistry ==
  [][(pc = "call" \/ pc' = "call") => registry' = registry]_vars

\* C17 witness: a dispatch operation has been left by an exception and the
\* callback that raised is still at its place in the list.
C17_Witness ==
  /\ op \in DispatchOps /\ pc = "idle" /\ exc # "none"
  /\ invoked # <<>>
  /\ Len(invoked) <= Len(CallbackList(op))
  /\ CallbackList(op)[Len(invoked)] = invoked[Len(invoked)].h

====
